---- MODULE Spec2Model ----
(***************************************************************************)
(* A model of helpers/koboldai.py: the KoboldApiLLM client adapter.        *)
(*                                                                         *)
(* Strings are sequences of one-character strings, so that endswith,       *)
(* strip, rstrip, slicing and the substring test of Python's `in` are      *)
(* computed, not assumed.  JSON values are tagged records; a JSON object   *)
(* is a sequence of <<key, value>> pairs.  Numbers are held in tenths      *)
(* (1.2 is 12), which is exact for every number the model draws.           *)
(***************************************************************************)
EXTENDS Integers, Sequences, FiniteSets, Bags, TLC

VARIABLES
    url,            \* clean_url: the string given to the first application
    cleaned,        \* clean_url: the value after `napply` applications
    napply,         \* clean_url: number of applications so far
    response,       \* response handling: the HTTP response of the generate call
    stop,           \* response handling: the `stop` argument (None or a list)
    mode,           \* response handling: which entry point processed it
    result,         \* response handling: what the entry point returned or raised
    is_koboldcpp,   \* KoboldApiLLM.is_koboldcpp
    genkeys,        \* KoboldApiLLM.genkeys: channel_id -> genkey
    acalls,         \* the bag of suspended _acall coroutines
    http,           \* the HTTP exchanges of the latest operation
    out,            \* what the latest operation returned, raised and printed
    probed          \* history: some check_version call has returned normally

vars == <<url, cleaned, napply, response, stop, mode, result,
          is_koboldcpp, genkeys, acalls, http, out, probed>>

urlVars   == <<url, cleaned, napply>>
parseVars == <<response, stop, mode, result>>
llmVars   == <<is_koboldcpp, genkeys, acalls, http, out, probed>>

-----------------------------------------------------------------------------
(* Bounds of the model. *)

MaxUrlLen == 5      \* longest URL drawn
MaxApply == 2       \* applications of clean_url to one URL
MaxTextLen == 3     \* longest generated text drawn
MaxStops == 2       \* longest stop list drawn
MaxStopLen == 2     \* longest stop sequence drawn
MaxCalls == 2       \* _acall coroutines suspended at once

-----------------------------------------------------------------------------
(* Python strings. *)

None == [k |-> "None"]
Absent == [k |-> "absent"]      \* a key that is not in a dict
EmptyDict == [c \in {} |-> Absent]

\* All strings over alphabet A of length at most n.
RECURSIVE StringsUpTo(_, _)
StringsUpTo(A, n) ==
    IF n = 0 THEN {<<>>}
    ELSE LET shorter == StringsUpTo(A, n - 1)
         IN  shorter \cup {Append(s, c) : s \in {t \in shorter : Len(t) = n - 1}, c \in A}

\* s[:n] for 0 <= n <= len(s)
Take(s, n) == SubSeq(s, 1, n)

\* s.endswith(suffix)
EndsWith(s, suffix) ==
    /\ Len(suffix) <= Len(s)
    /\ SubSeq(s, Len(s) - Len(suffix) + 1, Len(s)) = suffix

\* needle in s, for two strings
IsSubstring(needle, s) ==
    \E i \in 0..(Len(s) - Len(needle)) : SubSeq(s, i + 1, i + Len(needle)) = needle

\* s[:-n], the slice Python computes: s[:-0] is s[:0], the empty string
DropLast(s, n) == IF n = 0 THEN <<>> ELSE Take(s, Len(s) - n)

IsSpace(c) == c = " "

\* s.rstrip()
RECURSIVE RStrip(_)
RStrip(s) ==
    IF s # <<>> /\ IsSpace(s[Len(s)]) THEN RStrip(Take(s, Len(s) - 1)) ELSE s

\* s.lstrip()
RECURSIVE LStrip(_)
LStrip(s) ==
    IF s # <<>> /\ IsSpace(s[1]) THEN LStrip(Tail(s)) ELSE s

\* s.strip()
Strip(s) == LStrip(RStrip(s))

-----------------------------------------------------------------------------
(* clean_url *)

SLASH_API == <<"/", "a", "p", "i">>
SLASH == <<"/">>

\* clean_url(url)
clean_url(u) ==
    IF EndsWith(u, SLASH_API) THEN Take(u, Len(u) - 4)
    ELSE IF EndsWith(u, SLASH) THEN Take(u, Len(u) - 1)
    ELSE u

UrlChars == {"/", "a", "p", "i", "h"}
Urls == StringsUpTo(UrlChars, MaxUrlLen)

-----------------------------------------------------------------------------
(* JSON values, as response.json() returns them. *)

JNull == [k |-> "null"]
JBool(b) == [k |-> "bool", b |-> b]
JNum(n) == [k |-> "num", n |-> n]             \* n is the number in tenths
JStr(s) == [k |-> "str", s |-> s]
JList(l) == [k |-> "list", items |-> l]
JObj(f) == [k |-> "obj", fields |-> f]        \* f: sequence of <<key, value>>
NotJson == [k |-> "notjson"]                  \* a body json() cannot parse

RESULTS == <<"r", "e", "s", "u", "l", "t", "s">>
TEXT == <<"t", "e", "x", "t">>
VERSION == <<"v", "e", "r", "s", "i", "o", "n">>
SUCCESS == <<"s", "u", "c", "c", "e", "s", "s">>

HasKey(j, key) == \E i \in 1..Len(j.fields) : j.fields[i][1] = key
Field(j, key) == j.fields[CHOOSE i \in 1..Len(j.fields) : j.fields[i][1] = key][2]

\* `key in j`: "T", "F", or the exception Python raises
PyIn(key, j) ==
    CASE j.k = "obj"  -> IF HasKey(j, key) THEN "T" ELSE "F"
      [] j.k = "list" -> IF \E i \in 1..Len(j.items) : j.items[i] = JStr(key) THEN "T" ELSE "F"
      [] j.k = "str"  -> IF IsSubstring(key, j.s) THEN "T" ELSE "F"
      [] OTHER        -> "TypeError"

\* j[key] for a string key: [exc, val]
PyGetKey(j, key) ==
    CASE j.k = "obj"  -> IF HasKey(j, key) THEN [exc |-> "", val |-> Field(j, key)]
                         ELSE [exc |-> "KeyError", val |-> JNull]
      [] OTHER        -> [exc |-> "TypeError", val |-> JNull]

\* len(j): [exc, val]
PyLen(j) ==
    CASE j.k = "obj"  -> [exc |-> "", val |-> Len(j.fields)]
      [] j.k = "list" -> [exc |-> "", val |-> Len(j.items)]
      [] j.k = "str"  -> [exc |-> "", val |-> Len(j.s)]
      [] OTHER        -> [exc |-> "TypeError", val |-> 0]

\* j[0], evaluated only where len(j) > 0: [exc, val]
PyGetFirst(j) ==
    CASE j.k = "list" -> [exc |-> "", val |-> j.items[1]]
      [] j.k = "str"  -> [exc |-> "", val |-> JStr(<<j.s[1]>>)]
      [] j.k = "obj"  -> [exc |-> "KeyError", val |-> JNull]
      [] OTHER        -> [exc |-> "TypeError", val |-> JNull]

\* j == True
PyEqTrue(j) ==
    CASE j.k = "bool" -> j.b
      [] j.k = "num"  -> j.n = 10
      [] OTHER        -> FALSE

-----------------------------------------------------------------------------
(* The response handling of _call and _acall. *)

\* An HTTP response: the status line and the body.  Status 0 stands for a
\* request that got no response (the transport raised).
Resp(status, body) == [status |-> status, body |-> body]
NoResponse == [status |-> -1, body |-> NotJson]

\* response.raise_for_status()
RaisesForStatus(r) == r.status >= 400

Raised(exc, payload) == [exc |-> exc, text |-> <<>>, payload |-> payload]
Returned(text) == [exc |-> "", text |-> text, payload |-> JNull]

\* for sequence in stop: if text.endswith(sequence): text = text[:-len(sequence)].rstrip()
RECURSIVE StripStops(_, _)
StripStops(text, stops) ==
    IF stops = <<>> THEN text
    ELSE StripStops(IF EndsWith(text, Head(stops))
                    THEN RStrip(DropLast(text, Len(Head(stops))))
                    ELSE text,
                    Tail(stops))

\* The body of `if "results" in json_response and len(...) > 0 and "text" in ...[0]`
\* and of its two branches, for a parsed json_response j.
ExtractText(j, stopArg) ==
    LET in1 == PyIn(RESULTS, j)
        res == PyGetKey(j, RESULTS)
        n == PyLen(res.val)
        first == PyGetFirst(res.val)
        in2 == PyIn(TEXT, first.val)
        t == PyGetKey(first.val, TEXT)
    IN  IF in1 = "TypeError" THEN Raised("TypeError", JNull)
        ELSE IF in1 = "F" THEN Raised("ValueError", j)
        ELSE IF res.exc # "" THEN Raised(res.exc, JNull)
        ELSE IF n.exc # "" THEN Raised(n.exc, JNull)
        ELSE IF n.val = 0 THEN Raised("ValueError", j)
        ELSE IF first.exc # "" THEN Raised(first.exc, JNull)
        ELSE IF in2 = "TypeError" THEN Raised("TypeError", JNull)
        ELSE IF in2 = "F" THEN Raised("ValueError", j)
        ELSE IF t.exc # "" THEN Raised(t.exc, JNull)
        ELSE IF t.val.k # "str" THEN Raised("AttributeError", JNull)
        ELSE Returned(IF stopArg = None THEN Strip(t.val.s)
                      ELSE StripStops(Strip(t.val.s), stopArg.items))

\* _call from the response on
CallResult(r, stopArg) ==
    IF r.status = 0 THEN Raised("ConnectionError", JNull)
    ELSE IF RaisesForStatus(r) THEN Raised("HTTPError", JNull)
    ELSE IF r.body = NotJson THEN Raised("JSONDecodeError", JNull)
    ELSE ExtractText(r.body, stopArg)

\* _acall from the response on (aiohttp raises its own error types where
\* requests raises ConnectionError)
AcallResult(r, stopArg) ==
    IF r.status = 0 THEN Raised("ClientError", JNull)
    ELSE IF RaisesForStatus(r) THEN Raised("HTTPError", JNull)
    ELSE IF r.body = NotJson THEN Raised("JSONDecodeError", JNull)
    ELSE ExtractText(r.body, stopArg)

-----------------------------------------------------------------------------
(* Inputs drawn for the response handling. *)

TextChars == {"a", "b", " "}
Texts == StringsUpTo(TextChars, MaxTextLen)
StopSeqs == StringsUpTo(TextChars, MaxStopLen)

RECURSIVE ListsUpTo(_, _)
ListsUpTo(S, n) ==
    IF n = 0 THEN {<<>>}
    ELSE LET shorter == ListsUpTo(S, n - 1)
         IN  shorter \cup {Append(l, x) : l \in {m \in shorter : Len(m) = n - 1}, x \in S}

StopList(l) == [k |-> "list", items |-> l]
StopArgs == {None} \cup {StopList(l) : l \in ListsUpTo(StopSeqs, MaxStops)}

Obj1(key, val) == JObj(<< <<key, val>> >>)
GoodBody(t) == Obj1(RESULTS, JList(<< Obj1(TEXT, JStr(t)) >>))

\* What a first element of `results` can be, other than an object with a string text.
BadFirsts ==
    { JNull, JNum(10), JStr(TEXT), JStr(<<"a">>), JList(<<>>), JList(<<JStr(TEXT)>>),
      JObj(<<>>), Obj1(TEXT, JNull), Obj1(TEXT, JNum(10)), Obj1(TEXT, JList(<<>>)) }

\* What `results` can be, other than a list.
BadResults ==
    { JNull, JNum(10), JStr(<<>>), JStr(TEXT), JObj(<<>>), Obj1(TEXT, JStr(<<"a">>)) }

BadBodies ==
    { JNull, JNum(10), JStr(RESULTS), JStr(<<"a">>), JList(<<>>), JList(<<JStr(RESULTS)>>),
      JObj(<<>>), Obj1(TEXT, JStr(<<"a">>)), Obj1(RESULTS, JList(<<>>)) }
    \cup {Obj1(RESULTS, r) : r \in BadResults}
    \cup {Obj1(RESULTS, JList(<<f>>)) : f \in BadFirsts}

GenResponses ==
    {Resp(200, GoodBody(t)) : t \in Texts}
    \cup {Resp(200, b) : b \in BadBodies \cup {NotJson}}
    \cup {Resp(st, b) : st \in {201, 404, 500}, b \in {NotJson, JObj(<<>>), GoodBody(<<"a">>)}}
    \cup {Resp(0, NotJson)}

-----------------------------------------------------------------------------
(* Specification SpecUrl: clean_url applied repeatedly to a drawn URL. *)

IdleUrl == url = <<>> /\ cleaned = <<>> /\ napply = 0
IdleParse == response = NoResponse /\ stop = None /\ mode = "" /\ result = Returned(<<>>)
IdleLlm ==
    /\ is_koboldcpp = FALSE
    /\ genkeys = EmptyDict
    /\ acalls = EmptyBag
    /\ http = <<>>
    /\ out = [op |-> ""]
    /\ probed = FALSE

InitUrl ==
    /\ url \in Urls
    /\ cleaned = url
    /\ napply = 0
    /\ IdleParse
    /\ IdleLlm

Normalize ==
    /\ napply < MaxApply
    /\ cleaned' = clean_url(cleaned)
    /\ napply' = napply + 1
    /\ UNCHANGED <<url, parseVars, llmVars>>

NextUrl == Normalize

SpecUrl == InitUrl /\ [][NextUrl]_vars

-----------------------------------------------------------------------------
(* Specification SpecParse: _call and _acall from the response on. *)

InitParse ==
    /\ response \in GenResponses
    /\ stop \in StopArgs
    /\ mode = ""
    /\ result = Returned(<<>>)
    /\ IdleUrl
    /\ IdleLlm

CallReturns ==
    /\ mode = ""
    /\ mode' = "_call"
    /\ result' = CallResult(response, stop)
    /\ UNCHANGED <<response, stop, urlVars, llmVars>>

AcallReturns ==
    /\ mode = ""
    /\ mode' = "_acall"
    /\ result' = AcallResult(response, stop)
    /\ UNCHANGED <<response, stop, urlVars, llmVars>>

NextParse == CallReturns \/ AcallReturns

SpecParse == InitParse /\ [][NextParse]_vars

-----------------------------------------------------------------------------
(* The client: _get_parameters, _call, _acall, check_version, _stop. *)

Channels == {"c1", "c2"}        \* channel_id values callers pass
\* values random.choices(string.ascii_uppercase + string.digits, k=10) can
\* return, joined: two of the 36^10
Keys == {JStr(<<"K", "1">>), JStr(<<"Z", "9">>)}

\* _get_parameters: the fields of `data` that depend on the call.  The prompt
\* and the sampling fields are copied from the arguments and the instance.
get_parameters(stopArg) ==
    [stop_sequence |-> IF stopArg # None /\ stopArg.items # <<>> THEN stopArg ELSE Absent,
     genkey |-> Absent]

Exchange(method, path, json, r) ==
    [method |-> method, path |-> path, json |-> json, response |-> r]

\* self.genkeys[channel_id] = genkey, with a dict.setdefault in place of the store
register_setdefault(reg, channel, genkey) ==
    IF channel \in DOMAIN reg THEN reg
    ELSE [c \in DOMAIN reg \cup {channel} |-> IF c = channel THEN genkey ELSE reg[c]]

\* self.genkeys[channel_id] = genkey, with one key shared by every channel
register_shared(reg, channel, genkey) ==
    [c \in DOMAIN reg \cup {channel} |-> genkey]

\* self.genkeys[channel_id] = genkey
register(reg, channel, genkey) ==
    [c \in DOMAIN reg \cup {channel} |-> IF c = channel THEN genkey ELSE reg[c]]

LlmStopArgs == {StopList(<< <<"b">> >>)}

LlmGenResponses == { Resp(500, JObj(<<>>)), Resp(200, GoodBody(<<"a", " ", "b">>)) }

Init ==
    /\ is_koboldcpp = FALSE
    /\ genkeys = EmptyDict
    /\ acalls = EmptyBag
    /\ http = <<>>
    /\ out = [op |-> ""]
    /\ probed = FALSE
    /\ IdleUrl
    /\ IdleParse

\* _call(prompt, stop)
Call(stopArg, r) ==
    LET res == CallResult(r, stopArg)
    IN  /\ http' = << Exchange("POST", "/api/v1/generate", get_parameters(stopArg), r) >>
        /\ out' = [op |-> "_call", exc |-> res.exc, text |-> res.text, payload |-> res.payload]
        /\ UNCHANGED <<is_koboldcpp, genkeys, acalls, probed, urlVars, parseVars>>

\* _acall(prompt, stop, channel_id=channel) up to the first suspension
AcallStart(channel, stopArg, genkey) ==
    LET data == IF is_koboldcpp
                THEN [get_parameters(stopArg) EXCEPT !.genkey = genkey]
                ELSE get_parameters(stopArg)
        frame == [pc |-> "pending", channel |-> channel, stop |-> stopArg, data |-> data]
    IN  /\ BagCardinality(acalls) < MaxCalls
        /\ genkeys' = IF is_koboldcpp THEN register(genkeys, channel, genkey) ELSE genkeys
        /\ acalls' = acalls (+) SetToBag({frame})
        /\ http' = <<>>
        /\ out' = [op |-> "_acall", phase |-> "start", frame |-> frame,
                   registered |-> is_koboldcpp,
                   replaced |-> IF channel \in DOMAIN genkeys THEN genkeys[channel] ELSE Absent]
        /\ UNCHANGED <<is_koboldcpp, probed, urlVars, parseVars>>

\* session.post(...): the request goes on the wire
AcallPost(frame) ==
    LET posted == [frame EXCEPT !.pc = "posted"]
    IN  /\ BagIn(frame, acalls)
        /\ frame.pc = "pending"
        /\ acalls' = (acalls (-) SetToBag({frame})) (+) SetToBag({posted})
        /\ http' = << Exchange("POST", "/api/v1/generate", frame.data, NoResponse) >>
        /\ out' = [op |-> "_acall", phase |-> "post", frame |-> posted]
        /\ UNCHANGED <<is_koboldcpp, genkeys, probed, urlVars, parseVars>>

\* _acall from the response to its return or raise
AcallReturn(frame, r) ==
    LET res == AcallResult(r, frame.stop)
    IN  /\ BagIn(frame, acalls)
        /\ frame.pc = "posted"
        /\ acalls' = acalls (-) SetToBag({frame})
        /\ http' = << Exchange("POST", "/api/v1/generate", frame.data, r) >>
        /\ out' = [op |-> "_acall", phase |-> "return", frame |-> frame,
                   exc |-> res.exc, text |-> res.text, payload |-> res.payload]
        /\ UNCHANGED <<is_koboldcpp, genkeys, probed, urlVars, parseVars>>

-----------------------------------------------------------------------------
(* check_version *)

Digits == <<"0", "1", "2", "3", "4", "5", "6", "7", "8", "9">>
IsDigit(c) == \E d \in 1..10 : Digits[d] = c
DigitVal(c) == (CHOOSE d \in 1..10 : Digits[d] = c) - 1

RECURSIVE IntVal(_)
IntVal(s) == IF s = <<>> THEN 0 ELSE 10 * IntVal(Take(s, Len(s) - 1)) + DigitVal(s[Len(s)])

AllDigits(s) == \A i \in 1..Len(s) : IsDigit(s[i])

\* float(s) for a string: surrounding whitespace is ignored; the numerals read
\* are digits with at most one fractional digit (the value is held in tenths),
\* every other string the model draws is one float() rejects.
ParseFloat(s) ==
    LET t == Strip(s)
        dots == {i \in 1..Len(t) : t[i] = "."}
    IN  IF t # <<>> /\ AllDigits(t) THEN [exc |-> "", val |-> 10 * IntVal(t)]
        ELSE IF /\ Cardinality(dots) = 1
                /\ Len(t) >= 2
                /\ LET d == CHOOSE i \in dots : TRUE
                   IN  /\ d >= Len(t) - 1
                       /\ AllDigits(Take(t, d - 1))
                       /\ AllDigits(SubSeq(t, d + 1, Len(t)))
             THEN LET d == CHOOSE i \in dots : TRUE
                  IN  [exc |-> "", val |-> 10 * IntVal(Take(t, d - 1)) + IntVal(SubSeq(t, d + 1, Len(t)))]
        ELSE [exc |-> "ValueError", val |-> 0]

\* float(j): [exc, val]
PyFloat(j) ==
    CASE j.k = "num"  -> [exc |-> "", val |-> j.n]
      [] j.k = "bool" -> [exc |-> "", val |-> IF j.b THEN 10 ELSE 0]
      [] j.k = "str"  -> ParseFloat(j.s)
      [] OTHER        -> [exc |-> "TypeError", val |-> 0]

\* requests.get(...); response.raise_for_status(); response.json() completes
Fetched(r) == r.status # 0 /\ ~RaisesForStatus(r) /\ r.body # NotJson

GetExtra(r) == Exchange("GET", "/api/extra/version", Absent, r)
GetBasic(r) == Exchange("GET", "/api/v1/version", Absent, r)

\* check_version without `self.is_koboldcpp = False` in the fallback
check_version_keeps_flag(flag, ext, basic) ==
    LET field == PyGetKey(ext.body, VERSION)
        version == PyFloat(field.val)
        parsed == Fetched(ext) /\ field.exc = "" /\ version.exc = ""
        flagAfterTry == IF Fetched(ext) THEN TRUE ELSE flag
    IN  IF parsed
        THEN [flag |-> TRUE, exc |-> "", ret |-> version.val, http |-> <<GetExtra(ext)>>,
              printed |-> "The endpoint is running koboldcpp instead of KoboldAI."]
        ELSE IF Fetched(basic)
        THEN [flag |-> flagAfterTry, exc |-> "", ret |-> 0, http |-> <<GetExtra(ext), GetBasic(basic)>>,
              printed |-> "The endpoint is running KoboldAI instead of koboldcpp."]
        ELSE [flag |-> flagAfterTry, exc |-> "ValueError", ret |-> 0,
              http |-> <<GetExtra(ext), GetBasic(basic)>>,
              printed |-> IF Fetched(ext) THEN "The endpoint is running koboldcpp instead of KoboldAI."
                          ELSE ""]

\* check_version, given the flag before the call and what the two endpoints
\* answer: the flag after it, what it returns or raises, the requests it made.
check_version(flag, ext, basic) ==
    LET field == PyGetKey(ext.body, VERSION)
        version == PyFloat(field.val)
        \* line 294 returns
        parsed == Fetched(ext) /\ field.exc = "" /\ version.exc = ""
        \* line 292 runs as soon as lines 289-291 have not raised
        flagAfterTry == IF Fetched(ext) THEN TRUE ELSE flag
        printedInTry == IF Fetched(ext)
                        THEN "The endpoint is running koboldcpp instead of KoboldAI."
                        ELSE ""
    IN  IF parsed
        THEN [flag |-> TRUE, exc |-> "", ret |-> version.val, http |-> <<GetExtra(ext)>>,
              printed |-> printedInTry]
        ELSE IF Fetched(basic)
        THEN [flag |-> FALSE, exc |-> "", ret |-> 0, http |-> <<GetExtra(ext), GetBasic(basic)>>,
              printed |-> "The endpoint is running KoboldAI instead of koboldcpp."]
        ELSE [flag |-> flagAfterTry, exc |-> "ValueError", ret |-> 0,
              http |-> <<GetExtra(ext), GetBasic(basic)>>, printed |-> printedInTry]

V12 == <<"1", ".", "2">>
\* What the two version endpoints are drawn to answer.
ExtResponses ==
    { Resp(0, NotJson), Resp(404, JObj(<<>>)), Resp(200, NotJson), Resp(200, JObj(<<>>)),
      Resp(200, JList(<<>>)), Resp(201, Obj1(VERSION, JStr(V12))),
      Resp(200, Obj1(VERSION, JStr(V12))), Resp(200, Obj1(VERSION, JStr(<<" ", "3", " ">>))),
      Resp(200, Obj1(VERSION, JNum(15))), Resp(200, Obj1(VERSION, JStr(<<"x">>))),
      Resp(200, Obj1(VERSION, JStr(<<>>))), Resp(200, Obj1(VERSION, JNull)),
      Resp(200, Obj1(VERSION, JBool(TRUE))), Resp(200, Obj1(VERSION, JList(<<>>))),
      Resp(200, JStr(VERSION)), Resp(500, Obj1(VERSION, JStr(V12))) }
BasicResponses ==
    { Resp(0, NotJson), Resp(500, JObj(<<>>)), Resp(200, NotJson), Resp(200, JNull),
      Resp(200, Obj1(<<"r", "e", "s", "u", "l", "t">>, JStr(<<"1", ".", "2", ".", "2">>))) }

\* The answers drawn where check_version runs among the other operations.
LlmExtResponses ==
    { Resp(0, NotJson), Resp(200, JObj(<<>>)), Resp(200, Obj1(VERSION, JStr(V12))) }
LlmBasicResponses ==
    { Resp(500, JObj(<<>>)),
      Resp(200, Obj1(<<"r", "e", "s", "u", "l", "t">>, JStr(<<"1", ".", "2", ".", "2">>))) }

CheckVersion(ext, basic) ==
    LET res == check_version(is_koboldcpp, ext, basic)
    IN  /\ is_koboldcpp' = res.flag
        /\ http' = res.http
        /\ out' = [op |-> "check_version", exc |-> res.exc, ret |-> res.ret,
                   printed |-> res.printed]
        /\ probed' = (probed \/ res.exc = "")
        /\ UNCHANGED <<genkeys, acalls, urlVars, parseVars>>

-----------------------------------------------------------------------------
(* _stop *)

AbortPost(genkey, r) == Exchange("POST", "/api/extra/abort", [genkey |-> genkey], r)

Aborted == "Successfully aborted AI generation"
AbortRefused == "Error aborting AI generation."
AbortRaised == "Error aborting AI generation: <exception>"

\* response.status_code == 200 and response.json()["success"] == True:
\* "T", "F", or "raise" where the expression raises
AbortAccepted(r) ==
    LET field == PyGetKey(r.body, SUCCESS)
    IN  IF r.status # 200 THEN "F"
        ELSE IF r.body = NotJson \/ field.exc # "" THEN "raise"
        ELSE IF PyEqTrue(field.val) THEN "T" ELSE "F"

\* _stop reading self.genkeys[channel_id] outside the try: a missing channel raises
stop_unguarded(reg, channel, r) ==
    IF channel \in DOMAIN reg
    THEN [exc |-> "", http |-> << AbortPost(reg[channel], r) >>,
          printed |-> IF r.status = 0 \/ AbortAccepted(r) = "raise" THEN AbortRaised
                      ELSE IF AbortAccepted(r) = "T" THEN Aborted ELSE AbortRefused]
    ELSE [exc |-> "KeyError", http |-> <<>>, printed |-> ""]

\* _stop(channel_id), given the registry and what the abort endpoint answers.
\* Without an entry `json` is unbound: evaluating the call's arguments raises
\* UnboundLocalError inside the try, before any request is made.
stop_result(reg, channel, r) ==
    IF channel \in DOMAIN reg
    THEN [exc |-> "", http |-> << AbortPost(reg[channel], r) >>,
          printed |-> IF r.status = 0 \/ AbortAccepted(r) = "raise" THEN AbortRaised
                      ELSE IF AbortAccepted(r) = "T" THEN Aborted ELSE AbortRefused]
    ELSE [exc |-> "", http |-> <<>>, printed |-> AbortRaised]

TRUE_STR == <<"t", "r", "u", "e">>
AbortResponses ==
    { Resp(0, NotJson), Resp(500, Obj1(SUCCESS, JBool(TRUE))),
      Resp(200, Obj1(SUCCESS, JBool(TRUE))), Resp(200, Obj1(SUCCESS, JStr(TRUE_STR))) }

Stop(channel, r) ==
    LET res == stop_result(genkeys, channel, r)
    IN  /\ http' = res.http
        /\ out' = [op |-> "_stop", channel |-> channel, exc |-> res.exc,
                   printed |-> res.printed]
        /\ UNCHANGED <<is_koboldcpp, genkeys, acalls, probed, urlVars, parseVars>>

-----------------------------------------------------------------------------
(* Specification Spec: the client's operations in any order. *)

Frames == BagToSet(acalls)

Next ==
    \/ \E ext \in LlmExtResponses, basic \in LlmBasicResponses : CheckVersion(ext, basic)
    \/ \E s \in LlmStopArgs, r \in LlmGenResponses : Call(s, r)
    \/ \E c \in Channels, s \in LlmStopArgs, g \in Keys : AcallStart(c, s, g)
    \/ \E f \in Frames : AcallPost(f)
    \/ \E f \in Frames, r \in LlmGenResponses : AcallReturn(f, r)
    \/ \E c \in Channels, r \in AbortResponses : Stop(c, r)

Spec == Init /\ [][Next]_vars

-----------------------------------------------------------------------------
(* Specification SpecProbe: check_version called repeatedly on a new client. *)

NextProbe == \E ext \in ExtResponses, basic \in BasicResponses : CheckVersion(ext, basic)

SpecProbe == Init /\ [][NextProbe]_vars

-----------------------------------------------------------------------------
(* Claims about the response handling (SpecParse). *)

\* The text field of a body the handlers returned a text for.
BodyText(b) == Field(Field(b, RESULTS).items[1], TEXT).s

\* The text the claim describes: strip, then remove the first stop sequence
\* in list order that is a suffix, trim trailing whitespace, and stop there.
ClaimedText(text, stopArg) ==
    LET t == Strip(text)
        matching == IF stopArg = None THEN {}
                    ELSE {i \in 1..Len(stopArg.items) : EndsWith(t, stopArg.items[i])}
    IN  IF matching = {} THEN t
        ELSE LET first == CHOOSE i \in matching : \A j \in matching : i <= j
             IN  RStrip(Take(t, Len(t) - Len(stopArg.items[first])))

\* C1: the text _call or _acall returns is the stripped response text with
\* the first matching stop sequence, and only that one, removed from its end
\* and trailing whitespace trimmed; with no match it is the stripped text.
C1_OneStopStripped ==
    (mode # "" /\ result.exc = "") =>
        result.text = ClaimedText(BodyText(response.body), stop)

\* A parsed body has the results[0].text shape.
HasTextShape(b) ==
    /\ b.k = "obj"
    /\ HasKey(b, RESULTS)
    /\ LET res == Field(b, RESULTS)
       IN  /\ res.k = "list"
           /\ Len(res.items) > 0
           /\ res.items[1].k = "obj"
           /\ HasKey(res.items[1], TEXT)
           /\ Field(res.items[1], TEXT).k = "str"

\* C8: a generation call whose response has a status of 400 or more fails
\* with the transport error, one whose parsed body lacks the results[0].text
\* shape fails with the malformed-response error carrying the body, and in
\* both cases no text is returned.
C8_FailuresPropagate ==
    mode # "" =>
        /\ response.status >= 400 =>
                (result.exc = "HTTPError" /\ result.text = <<>>)
        /\ ( /\ response.status \in 200..399
             /\ response.body # NotJson
             /\ ~HasTextShape(response.body) ) =>
                ( /\ result.exc = "ValueError"
                  /\ result.payload = response.body
                  /\ result.text = <<>> )

-----------------------------------------------------------------------------
(* Claims about clean_url (SpecUrl). *)

\* C6: clean_url is idempotent, and what it returns ends neither with
\* '/api' nor with '/'.
C6_CleanUrlIdempotent ==
    /\ napply = 2 => cleaned = clean_url(url)
    /\ napply >= 1 => (~EndsWith(cleaned, SLASH_API) /\ ~EndsWith(cleaned, SLASH))

-----------------------------------------------------------------------------
(* Claims about check_version (SpecProbe). *)

\* The response is a success carrying a version field float() reads.
ExtValid(r) ==
    /\ r.status \in 200..399
    /\ r.body.k = "obj"
    /\ HasKey(r.body, VERSION)
    /\ LET v == Field(r.body, VERSION)
       IN  \/ v.k \in {"num", "bool"}
           \/ v.k = "str" /\ ParseFloat(v.s).exc = ""

\* The response is a success with a JSON body.
BasicOk(r) == r.status \in 200..399 /\ r.body # NotJson

\* C2: check_version first GETs /api/extra/version; when that answers with a
\* valid numeric version it makes no other request, sets is_koboldcpp and
\* returns the version; otherwise it GETs /api/v1/version and, when that
\* succeeds, clears is_koboldcpp and returns 0.0, and when that fails too it
\* raises the endpoint-unavailable error.
C2_ProbeOrder ==
    out.op = "check_version" =>
        /\ Len(http) >= 1
        /\ http[1].method = "GET" /\ http[1].path = "/api/extra/version"
        /\ IF ExtValid(http[1].response)
           THEN /\ Len(http) = 1
                /\ is_koboldcpp
                /\ out.exc = ""
                /\ out.ret = PyFloat(Field(http[1].response.body, VERSION)).val
           ELSE /\ Len(http) = 2
                /\ http[2].method = "GET" /\ http[2].path = "/api/v1/version"
                /\ IF BasicOk(http[2].response)
                   THEN ~is_koboldcpp /\ out.exc = "" /\ out.ret = 0
                   ELSE out.exc = "ValueError"

\* The extended endpoint answered 200 without a usable version, the basic
\* endpoint answered, and check_version returned 0.0 in the basic dialect.
C2_Witness ==
    /\ out.op = "check_version"
    /\ Len(http) = 2
    /\ http[1].response.status = 200
    /\ BasicOk(http[2].response)
    /\ out.exc = "" /\ out.ret = 0
    /\ ~is_koboldcpp

-----------------------------------------------------------------------------
(* Claims about the client's operations (Spec). *)

\* C3: as long as no check_version call has returned normally, is_koboldcpp
\* is False, so no genkey is registered and no _acall carries one.
C3_BasicUntilProbed ==
    ~probed =>
        /\ is_koboldcpp = FALSE
        /\ genkeys = EmptyDict
        /\ \A f \in Frames : f.data.genkey = Absent

\* C4: _stop for a channel without an entry in genkeys returns normally,
\* reports a failure, makes no request and leaves genkeys as it was.
C4_StopWithoutKey ==
    [][ (out'.op = "_stop" /\ out'.channel \notin DOMAIN genkeys) =>
            /\ out'.exc = ""
            /\ out'.printed \in {AbortRefused, AbortRaised}
            /\ http' = <<>>
            /\ genkeys' = genkeys ]_vars

\* _stop ran in the extended dialect, with a key registered for the other
\* channel only, and reported the failure.
C4_Witness ==
    /\ out.op = "_stop"
    /\ out.channel \notin DOMAIN genkeys
    /\ DOMAIN genkeys # {}
    /\ is_koboldcpp
    /\ out.exc = "" /\ out.printed = AbortRaised
    /\ http = <<>>

\* Python's truth value of a JSON value
PyTruthy(j) ==
    CASE j.k = "bool" -> j.b
      [] j.k = "num"  -> j.n # 0
      [] j.k = "str"  -> j.s # <<>>
      [] j.k = "list" -> j.items # <<>>
      [] j.k = "obj"  -> j.fields # <<>>
      [] OTHER        -> FALSE

\* The reply is HTTP 200 with a truthy success field.
ReplyAccepts(r) ==
    /\ r.status = 200
    /\ r.body.k = "obj"
    /\ HasKey(r.body, SUCCESS)
    /\ PyTruthy(Field(r.body, SUCCESS))

\* C5: _stop for a channel with a registered key POSTs that key to
\* /api/extra/abort, returns normally, reports success exactly when the reply
\* is HTTP 200 with a truthy success field, and changes neither genkeys nor
\* is_koboldcpp.
C5_StopReportsSuccess ==
    [][ (out'.op = "_stop" /\ out'.channel \in DOMAIN genkeys) =>
            /\ Len(http') = 1
            /\ http'[1].method = "POST" /\ http'[1].path = "/api/extra/abort"
            /\ http'[1].json = [genkey |-> genkeys[out'.channel]]
            /\ out'.exc = ""
            /\ (out'.printed = Aborted) <=> ReplyAccepts(http'[1].response)
            /\ genkeys' = genkeys
            /\ is_koboldcpp' = is_koboldcpp ]_vars

\* The step is the start of an _acall for channel c that registers a key,
\* c has a key from an earlier call and no _acall for c is still suspended:
\* the second of two sequential calls in the extended dialect.
SecondCallStarts(c) ==
    /\ out'.op = "_acall" /\ out'.phase = "start"
    /\ out'.frame.channel = c
    /\ is_koboldcpp
    /\ c \in DOMAIN genkeys
    /\ \A f \in Frames : f.channel # c

\* C7 as stated: the second of two sequential _acall calls for a channel in
\* the extended dialect draws a key different from the first call's, and the
\* registry then holds the second key.
C7_KeysDiffer ==
    [][ \A c \in Channels : SecondCallStarts(c) =>
            /\ out'.frame.data.genkey # genkeys[c]
            /\ genkeys'[c] = out'.frame.data.genkey ]_vars

\* C7 as amended: the second of two sequential _acall calls for a channel in
\* the extended dialect draws a key (which may equal the first call's), and
\* the registry then holds, for that channel, the second call's key in place
\* of the first and no further entry.
C7_LatestKeyKept ==
    [][ \A c \in Channels : SecondCallStarts(c) =>
            /\ out'.frame.data.genkey \in Keys
            /\ genkeys'[c] = out'.frame.data.genkey
            /\ DOMAIN genkeys' = DOMAIN genkeys ]_vars

\* A second sequential call has just registered a key different from the one
\* it replaced.
C7_Witness ==
    /\ out.op = "_acall" /\ out.phase = "start"
    /\ out.registered
    /\ out.replaced # Absent
    /\ out.replaced # out.frame.data.genkey
    /\ genkeys[out.frame.channel] = out.frame.data.genkey
    /\ \A f \in Frames : f.channel = out.frame.channel => f = out.frame
    /\ CopiesIn(out.frame, acalls) = 1

\* C9: a generation request made in the extended dialect, by _call or by
\* _acall, first registers a fresh key for its channel and then POSTs it as
\* genkey; in the basic dialect nothing is registered and no genkey is sent;
\* no entry of genkeys is ever removed.
C9_KeyRegisteredBeforePost ==
    [][ /\ out'.op = "_call" =>
              IF is_koboldcpp
              THEN /\ http'[1].json.genkey \in Keys
                   /\ \E c \in DOMAIN genkeys' : genkeys'[c] = http'[1].json.genkey
              ELSE http'[1].json.genkey = Absent /\ genkeys' = genkeys
        /\ (out'.op = "_acall" /\ out'.phase = "start") =>
              IF is_koboldcpp
              THEN /\ out'.frame.data.genkey \in Keys
                   /\ genkeys'[out'.frame.channel] = out'.frame.data.genkey
                   /\ http' = <<>>
              ELSE out'.frame.data.genkey = Absent /\ genkeys' = genkeys
        /\ (out'.op = "_acall" /\ out'.phase = "post") =>
              /\ http'[1].path = "/api/v1/generate"
              /\ http'[1].json = out'.frame.data
        /\ DOMAIN genkeys \subseteq DOMAIN genkeys' ]_vars

\* The entry genkeys has for channel c, Absent where it has none.
Entry(reg, c) == IF c \in DOMAIN reg THEN reg[c] ELSE Absent

\* C10: whatever the interleaving, an _acall for a channel leaves the entry
\* of every other channel as it was; the entry of a channel changes only when
\* an _acall for that channel registers, and then to that call's key (the
\* last writer wins); and _stop for a channel sends the key that channel's
\* entry holds.
C10_ChannelsIndependent ==
    [][ \A c \in Channels :
          /\ (out'.op = "_acall" /\ out'.phase = "start" /\ out'.frame.channel = c) =>
                /\ \A d \in Channels \ {c} : Entry(genkeys', d) = Entry(genkeys, d)
                /\ is_koboldcpp => Entry(genkeys', c) = out'.frame.data.genkey
          /\ Entry(genkeys', c) # Entry(genkeys, c) =>
                /\ out'.op = "_acall" /\ out'.phase = "start"
                /\ out'.frame.channel = c
                /\ Entry(genkeys', c) = out'.frame.data.genkey
          /\ (out'.op = "_stop" /\ out'.channel = c /\ c \in DOMAIN genkeys) =>
                /\ Len(http') = 1
                /\ http'[1].path = "/api/extra/abort"
                /\ http'[1].json.genkey = genkeys[c] ]_vars

\* Two _acall coroutines for one channel are suspended with different keys,
\* another channel holds its own key, and _stop for the first channel has
\* just sent the key that channel's entry holds.
C10_Witness ==
    /\ out.op = "_stop"
    /\ Len(http) = 1
    /\ \E f1, f2 \in Frames :
          /\ f1.channel = out.channel /\ f2.channel = out.channel
          /\ f1.data.genkey \in Keys /\ f2.data.genkey \in Keys
          /\ f1.data.genkey # f2.data.genkey
    /\ \E d \in DOMAIN genkeys : d # out.channel /\ genkeys[d] # genkeys[out.channel]
    /\ http[1].json.genkey = genkeys[out.channel]

====
